---- MODULE Spec2Model ----
(***************************************************************************)
(* AgroSmart (src/app.py): timestamp normalisation, log series building,   *)
(* device liveness classification, irrigation advice and the threshold /   *)
(* command writes of the Streamlit script, over a Firebase-like store.     *)
(*                                                                         *)
(* Numbers.  Epoch values reach 10^15, beyond TLC's 32-bit integers, so a  *)
(* number is a magnitude written in base 1000, least significant limb      *)
(* first, without high zero limbs (<<>> is 0), plus a sign.  An integer    *)
(* counts units; a float counts thousandths, so float(n) prepends a zero   *)
(* limb and x / 1000.0 drops the lowest limb.  Numeric inputs are integers *)
(* (float inputs with a fractional part are outside the model).            *)
(***************************************************************************)
EXTENDS Integers, Sequences, FiniteSets, TLC

VARIABLES zones, meta, logs, clock, pc, click, loc, sent, arg, res

vars == <<zones, meta, logs, clock, pc, click, loc, sent, arg, res>>

-----------------------------------------------------------------------------
(* Python values *)

\* None, and a present value x (Optional values; `x is not None`)
None == <<>>
Some(x) == <<x>>
IsNone(o) == o = <<>>
Val(o) == o[1]

\* dict.get(k, default): default is itself an Optional value
DictGet(d, k, default) == IF k \in DOMAIN d THEN Some(d[k]) ELSE default

\* dict.update / Firebase update(): sets the given fields, keeps the others
Merge(d, u) == [k \in (DOMAIN d) \cup (DOMAIN u) |-> IF k \in DOMAIN u THEN u[k] ELSE d[k]]

EmptyDict == [k \in {} |-> 0]

-----------------------------------------------------------------------------
(* Base-1000 magnitudes *)

Base == 1000

\* a call evaluates its arguments once, before the body
Call1(F(_), x) == CHOOSE r \in {F(v) : v \in {x}} : TRUE
Call2(F(_, _), x, y) == CHOOSE r \in {F(v, w) : v \in {x}, w \in {y}} : TRUE

MaxOf(S) == CHOOSE x \in S : \A y \in S : y <= x
Limb(a, i) == IF i <= Len(a) THEN a[i] ELSE 0

\* a magnitude without its high zero limbs
NormV(m) == SubSeq(m, 1, MaxOf({0} \cup {i \in 1..Len(m) : m[i] # 0}))
Norm(m) == Call1(NormV, m)

\* the limbs of an integer of TLC's range, 0 <= n < 2^31
IntToLimbsV(n) ==
    Norm(<<n % Base, (n \div Base) % Base, (n \div (Base * Base)) % Base,
           n \div (Base * Base * Base)>>)
IntToLimbs(n) == Call1(IntToLimbsV, n)

\* -1, 0, 1 as a < b, a = b, a > b
HighestOf(a, b, diff) ==
    IF diff = {} THEN 0
    ELSE IF Limb(a, MaxOf(diff)) < Limb(b, MaxOf(diff)) THEN -1 ELSE 1
MagCmpV(a, b) ==
    Call1(LAMBDA diff : HighestOf(a, b, diff),
          {i \in 1..MaxOf({Len(a), Len(b)}) : Limb(a, i) # Limb(b, i)})
MagCmp(a, b) == Call2(MagCmpV, a, b)

\* a + b: limb i takes a carry when a lower limb overflows and every limb in
\* between is full
CarryInto(a, b, i) ==
    IF \E j \in 1..(i - 1) :
          /\ Limb(a, j) + Limb(b, j) >= Base
          /\ \A k \in (j + 1)..(i - 1) : Limb(a, k) + Limb(b, k) = Base - 1
    THEN 1 ELSE 0
MagAddV(a, b) ==
    Norm([i \in 1..(MaxOf({Len(a), Len(b)}) + 1) |->
             (Limb(a, i) + Limb(b, i) + CarryInto(a, b, i)) % Base])
MagAdd(a, b) == Call2(MagAddV, a, b)

\* a - b for a >= b: limb i lends when a lower limb falls short and every limb
\* in between is level
BorrowFrom(a, b, i) ==
    IF \E j \in 1..(i - 1) :
          /\ Limb(a, j) < Limb(b, j)
          /\ \A k \in (j + 1)..(i - 1) : Limb(a, k) = Limb(b, k)
    THEN 1 ELSE 0
MagSubV(a, b) ==
    Norm([i \in 1..Len(a) |-> (Limb(a, i) - Limb(b, i) - BorrowFrom(a, b, i) + Base) % Base])
MagSub(a, b) == Call2(MagSubV, a, b)

\* signed numbers [neg, mag]; zero is never negative
NumV(neg, mag) == [neg |-> neg /\ mag # <<>>, mag |-> mag]
Num(neg, mag) == Call2(NumV, neg, Norm(mag))
NumOf(n) == IF n < 0 THEN Num(TRUE, IntToLimbs(-n)) ELSE Num(FALSE, IntToLimbs(n))

NumCmpV(a, b) ==
    IF a.neg # b.neg THEN (IF a.neg THEN -1 ELSE 1)
    ELSE IF a.neg THEN MagCmp(b.mag, a.mag) ELSE MagCmp(a.mag, b.mag)
NumCmp(a, b) == Call2(NumCmpV, a, b)

NumNegV(a) == Num(~a.neg, a.mag)
NumNeg(a) == Call1(NumNegV, a)

NumAddV(a, b) ==
    IF a.neg = b.neg THEN Num(a.neg, MagAdd(a.mag, b.mag))
    ELSE IF MagCmp(a.mag, b.mag) >= 0 THEN Num(a.neg, MagSub(a.mag, b.mag))
    ELSE Num(b.neg, MagSub(b.mag, a.mag))
NumAdd(a, b) == Call2(NumAddV, a, b)

NumSub(a, b) == NumAdd(a, NumNeg(b))

\* n * 1000 on integers, float(n) from an integer to thousandths: one limb up
Times1000V(a) == Num(a.neg, <<0>> \o a.mag)
Times1000(a) == Call1(Times1000V, a)
ToFloat(a) == Times1000(a)
\* x / 1000.0 on a float: one limb down (the dropped limb is 0 for an integer input)
Div1000V(x) == Num(x.neg, IF x.mag = <<>> THEN <<>> ELSE Tail(x.mag))
Div1000(x) == Call1(Div1000V, x)

-----------------------------------------------------------------------------
(* ts_to_dt *)

\* 1e12 as a float (thousandths): 1000^4 units
E12 == Num(FALSE, <<0, 0, 0, 0, 0, 1>>)
\* the float range datetime.fromtimestamp(ts, tz=utc) accepts: years 1..9999
DtMax == Num(FALSE, <<999, 799, 300, 402, 253>>)
DtMin == Num(TRUE, <<0, 800, 596, 135, 62>>)

\* raw timestamps as the store returns them
TsPlaceholder == [t |-> "dict"]
TsStr(s) == [t |-> "str", s |-> s]
TsNum(n) == [t |-> "num", n |-> n]

IsSpace(c) == c = " "
IsDigit(c) == c \in {"0", "1", "2", "3", "4", "5", "6", "7", "8", "9"}
DigitVal(c) ==
    CASE c = "0" -> 0 [] c = "1" -> 1 [] c = "2" -> 2 [] c = "3" -> 3 [] c = "4" -> 4
      [] c = "5" -> 5 [] c = "6" -> 6 [] c = "7" -> 7 [] c = "8" -> 8 [] c = "9" -> 9

\* str.strip()
RECURSIVE LStrip(_)
LStrip(s) == IF s # <<>> /\ IsSpace(Head(s)) THEN LStrip(Tail(s)) ELSE s
RECURSIVE RStrip(_)
RStrip(s) == IF s # <<>> /\ IsSpace(s[Len(s)]) THEN RStrip(SubSeq(s, 1, Len(s) - 1)) ELSE s
Strip(s) == RStrip(LStrip(s))

\* float(str) for strings of decimal digits; anything else raises ValueError (None here)
RECURSIVE DigitsVal(_, _)
DigitsVal(s, acc) == IF s = <<>> THEN acc ELSE DigitsVal(Tail(s), acc * 10 + DigitVal(Head(s)))
ParseFloat(s) ==
    IF s # <<>> /\ \A i \in 1..Len(s) : IsDigit(s[i])
    THEN Some(ToFloat(NumOf(DigitsVal(s, 0))))
    ELSE None

\* lines 58-59: millisecond values are scaled to seconds
ScaleWrongMagnitudeV(x) == IF NumCmp(x, Times1000(E12)) > 0 THEN Div1000(x) ELSE x
ScaleWrongMagnitude(x) == Call1(ScaleWrongMagnitudeV, x)
ScaleV(x) == IF NumCmp(x, E12) > 0 THEN Div1000(x) ELSE x
Scale(x) == Call1(ScaleV, x)

\* line 60: an aware datetime, or None when fromtimestamp raises (caught at line 61)
FromTimestampV(x) ==
    IF NumCmp(x, DtMin) >= 0 /\ NumCmp(x, DtMax) <= 0 THEN Some(x) ELSE None
FromTimestamp(x) == Call1(FromTimestampV, x)

\* ts is an Optional raw timestamp; the result is None or Some(instant), the
\* instant in seconds since the epoch as a float
ts_to_dt(ts) ==
    IF IsNone(ts) \/ Val(ts).t = "dict" THEN None
    ELSE IF Val(ts).t = "str"
         THEN LET s == Strip(Val(ts).s)
              IN  IF s = <<>> THEN None
                  ELSE IF IsNone(ParseFloat(s)) THEN None
                  ELSE FromTimestamp(Scale(Val(ParseFloat(s))))
         ELSE FromTimestamp(Scale(ToFloat(Val(ts).n)))

-----------------------------------------------------------------------------
(* Timestamp normaliser on its own: numeric inputs v and v * 1000 *)

MaxLimbs == 5
LimbSamples == {0, 1, 999}
MagSamples ==
    UNION {[1..n -> LimbSamples] : n \in 0..MaxLimbs}
      \cup {<<799, 300, 402, 253>>, <<800, 300, 402, 253>>, <<0, 0, 700, 1>>}
NumSamples == {Num(s, m) : s \in BOOLEAN, m \in MagSamples}

\* no result yet
Pending == [done |-> FALSE]

\* the store and the viewers play no part
NoStore ==
    /\ zones = None /\ meta = None /\ logs = None /\ clock = 0
    /\ pc = <<>> /\ click = <<>> /\ loc = <<>> /\ sent = None

InitTs ==
    /\ NoStore
    /\ arg \in NumSamples
    /\ res = Pending

Normalize ==
    /\ res = Pending
    /\ res' = [done |-> TRUE,
               secs |-> ts_to_dt(Some(TsNum(arg))),
               millis |-> ts_to_dt(Some(TsNum(Times1000(arg))))]
    /\ UNCHANGED <<zones, meta, logs, clock, pc, click, loc, sent, arg>>

NextTs == Normalize

SpecTs == InitTs /\ [][NextTs]_vars

E9 == Num(FALSE, <<0, 0, 0, 1>>)
E12Int == Num(FALSE, <<0, 0, 0, 0, 1>>)

\* C7 as stated: every valid epoch-seconds v <= 1e12 and v * 1000 resolve to
\* the same instant
C7_AsStated ==
    (res.done /\ NumCmp(arg, E12Int) <= 0 /\ ~IsNone(res.secs)) => res.secs = res.millis

\* C7 amended: for every integer v with 1e9 < v <= 1e12, ts_to_dt(v) and
\* ts_to_dt(v * 1000) are the same (the same instant, or both unresolvable)
C7_SameInstant ==
    (res.done /\ NumCmp(arg, E9) > 0 /\ NumCmp(arg, E12Int) <= 0) => res.secs = res.millis

C7_Witness ==
    /\ res.done /\ NumCmp(arg, E9) > 0 /\ NumCmp(arg, E12Int) <= 0
    /\ ~IsNone(res.secs) /\ res.secs = res.millis

-----------------------------------------------------------------------------
(* Store nodes and reads *)

\* what db.reference(path).get() returns: null, a mapping, or another JSON value
NullNode == [k |-> "null"]
MapNode(m) == [k |-> "map", m |-> m]
ScalarNode(truthy) == [k |-> "scalar", truthy |-> truthy]

\* `x or {}`: null and falsy values (0, "", false) become the empty mapping
OrEmpty(node) ==
    IF node.k = "null" \/ (node.k = "scalar" /\ ~node.truthy) THEN MapNode(EmptyDict) ELSE node

-----------------------------------------------------------------------------
(* pull_logs *)

\* lines 77-83: one row per mapping record; idx is the DataFrame index
Row(v, i) ==
    [idx |-> i,
     ts |-> DictGet(v, "ts", None),
     soil_pct |-> DictGet(v, "soil_pct", DictGet(v, "soil_moisture_pct", None)),
     humidity_pct |-> DictGet(v, "humidity_pct", DictGet(v, "moisture_pct", None)),
     temp_c |-> DictGet(v, "temp_c", None)]

\* lines 73-83: logs is a sequence of record nodes in the mapping's key order
RECURSIVE RowsFrom(_, _)
RowsFrom(recs, n) ==
    IF recs = <<>> THEN <<>>
    ELSE IF Head(recs).k = "map"
         THEN <<Row(Head(recs).m, n)>> \o RowsFrom(Tail(recs), n + 1)
         ELSE RowsFrom(Tail(recs), n)

Rows(node) ==
    LET logs0 == OrEmpty(node)
    IN  IF logs0.k = "map" THEN RowsFrom(logs0.m, 0) ELSE <<>>

\* line 86
WithDt(rows) == [i \in 1..Len(rows) |-> [row |-> rows[i], dt |-> ts_to_dt(rows[i].ts)]]

\* line 87: dropna(subset=["dt"])
RECURSIVE DropNa(_)
DropNa(rows) ==
    IF rows = <<>> THEN <<>>
    ELSE IF IsNone(Head(rows).dt) THEN DropNa(Tail(rows))
    ELSE <<Head(rows)>> \o DropNa(Tail(rows))

Range(s) == {s[i] : i \in 1..Len(s)}

\* line 87: sort_values("dt") is not a stable sort: every ascending arrangement
\* of the rows is a possible result
SortValues(rows) ==
    {s \in [1..Len(rows) -> Range(rows)] :
        /\ \A i, j \in 1..Len(rows) : i # j => s[i] # s[j]
        /\ \A i \in 1..(Len(rows) - 1) : NumCmp(Val(s[i].dt), Val(s[i + 1].dt)) <= 0}

\* df.iloc[-limit:]: the slice -0: is the slice 0:, the whole frame
ILocLast(df, limit) ==
    IF limit = 0 THEN df
    ELSE SubSeq(df, (IF limit < Len(df) THEN Len(df) - limit ELSE 0) + 1, Len(df))

\* lines 88-89
Truncate(df, limit) == IF Len(df) > limit THEN ILocLast(df, limit) ELSE df

\* the frames pull_logs can return for what the store read returned
pull_logs(node, limit) ==
    IF Rows(node) = <<>> THEN {<<>>}
    ELSE {Truncate(s, limit) : s \in SortValues(DropNa(WithDt(Rows(node))))}

-----------------------------------------------------------------------------
(* Series builder on its own: pull_logs over sample log collections *)

MaxLogs == 3
MaxLimit == 3

T0Num == Num(FALSE, <<0, 0, 700, 1>>)          \* 1700000000
T0Ms == Times1000(T0Num)                        \* 1700000000000
T5Num == Num(FALSE, <<5, 0, 700, 1>>)          \* 1700000005

LogRecordSamples ==
    { MapNode([ts |-> TsNum(T0Num), soil_pct |-> 40, humidity_pct |-> 60, temp_c |-> 25]),
      MapNode([ts |-> TsNum(T0Ms), soil_moisture_pct |-> 35]),
      MapNode([ts |-> TsNum(T5Num), moisture_pct |-> 55]),
      MapNode([ts |-> TsStr(<<" ", "1", "5", " ">>), soil_pct |-> 0]),
      MapNode([ts |-> TsStr(<<" ", " ">>), soil_pct |-> 41]),
      MapNode([ts |-> TsStr(<<"1", "x">>), soil_pct |-> 42]),
      MapNode([ts |-> TsPlaceholder, soil_pct |-> 43]),
      MapNode([ts |-> TsNum(E12Int), soil_pct |-> 44]),
      MapNode([soil_pct |-> 45, temp_c |-> 20]),
      ScalarNode(TRUE) }

LogNodes == {MapNode(s) : s \in UNION {[1..n -> LogRecordSamples] : n \in 1..MaxLogs}}
              \cup {NullNode, ScalarNode(TRUE), ScalarNode(FALSE)}

InitLogs ==
    /\ NoStore
    /\ arg \in [node : LogNodes, limit : 0..MaxLimit]
    /\ res = Pending

PullLogs ==
    /\ res = Pending
    /\ \E df \in pull_logs(arg.node, arg.limit) : res' = [done |-> TRUE, df |-> df]
    /\ UNCHANGED <<zones, meta, logs, clock, pc, click, loc, sent, arg>>

NextLogs == PullLogs

SpecLogs == InitLogs /\ [][NextLogs]_vars

\* the raw records of the collection, and those whose time resolves
RawRecords(node) == IF node.k = "map" THEN node.m ELSE <<>>
Resolves(rec) == rec.k = "map" /\ ~IsNone(ts_to_dt(DictGet(rec.m, "ts", None)))
Resolvable(node) == {i \in 1..Len(RawRecords(node)) : Resolves(RawRecords(node)[i])}
TimeOf(rec) == Val(ts_to_dt(DictGet(rec.m, "ts", None)))
Min(a, b) == IF a < b THEN a ELSE b

\* the mapping records in order, so that frame index i is MapRecords[i + 1]
RECURSIVE SelectMaps(_)
SelectMaps(recs) ==
    IF recs = <<>> THEN <<>>
    ELSE IF Head(recs).k = "map" THEN <<Head(recs)>> \o SelectMaps(Tail(recs))
    ELSE SelectMaps(Tail(recs))

\* the series is the last Min(L, N - K) of the resolvable records in ascending time
SeriesIsLatest(node, limit, df) ==
    LET recs == SelectMaps(RawRecords(node))
        kept == {df[i].row.idx + 1 : i \in 1..Len(df)}
        good == {i \in 1..Len(recs) : Resolves(recs[i])}
    IN  /\ Len(df) = Min(limit, Cardinality(Resolvable(node)))
        /\ Cardinality(kept) = Len(df)
        /\ kept \subseteq good
        /\ \A i \in 1..Len(df) : df[i].dt = ts_to_dt(DictGet(recs[df[i].row.idx + 1].m, "ts", None))
        /\ \A i \in 1..(Len(df) - 1) : NumCmp(Val(df[i].dt), Val(df[i + 1].dt)) <= 0
        /\ \A i \in good \ kept : \A j \in kept : NumCmp(TimeOf(recs[i]), TimeOf(recs[j])) <= 0

\* C6 as stated: for every collection and every limit L, pull_logs returns the
\* last min(L, N - K) of the N - K resolvable records sorted ascending by time
C6_LatestWithinLimit == res.done => SeriesIsLatest(arg.node, arg.limit, res.df)

\* the same for limits of at least 1
C6_PositiveLimit == (res.done /\ arg.limit >= 1) => SeriesIsLatest(arg.node, arg.limit, res.df)

-----------------------------------------------------------------------------
(* make_status_pill *)

heartbeat_s == 45
stale_s == 240

\* line 120: (now - last_dt).total_seconds(), a float
AgeReversed(now, last_dt) == NumSub(Val(last_dt), now)
Age(now, last_dt) == NumSub(now, Val(last_dt))

\* lines 118-129: the state of the pill (the label is display only); now is
\* what datetime.now() returns at line 117
make_status_pill_strict(last_dt, now, hb, stale) ==
    IF IsNone(last_dt) THEN "offline"
    ELSE Call1(LAMBDA age :
                 IF NumCmp(age, ToFloat(NumOf(hb))) < 0 THEN "online"
                 ELSE IF NumCmp(age, ToFloat(NumOf(stale))) < 0 THEN "stale"
                 ELSE "offline",
               Age(now, last_dt))
make_status_pill(last_dt, now, hb, stale) ==
    IF IsNone(last_dt) THEN "offline"
    ELSE Call1(LAMBDA age :
                 IF NumCmp(age, ToFloat(NumOf(hb))) <= 0 THEN "online"
                 ELSE IF NumCmp(age, ToFloat(NumOf(stale))) <= 0 THEN "stale"
                 ELSE "offline",
               Age(now, last_dt))

-----------------------------------------------------------------------------
(* Liveness classifier on its own: ages in milliseconds around the boundaries *)

MaxAgeS == 245
AgeSamplesMs == {k * 500 : k \in (-4)..(MaxAgeS * 2)} \cup {44999, 45001, 240001}
PillPairs == {<<heartbeat_s, stale_s>>, <<1, 2>>, <<60, 200>>}
NowSample == Num(FALSE, <<250, 300, 0, 700, 1>>)    \* 1700000300.250

InitPill ==
    /\ NoStore
    /\ \E p \in PillPairs :
         \/ arg = [absent |-> TRUE, age_ms |-> 0, last_dt |-> None, now |-> NowSample,
                   hb |-> p[1], stale |-> p[2]]
         \/ \E a \in AgeSamplesMs :
              arg = [absent |-> FALSE, age_ms |-> a,
                     last_dt |-> Some(NumSub(NowSample, NumOf(a))), now |-> NowSample,
                     hb |-> p[1], stale |-> p[2]]
    /\ res = Pending

Classify ==
    /\ res = Pending
    /\ res' = [done |-> TRUE, state |-> make_status_pill(arg.last_dt, arg.now, arg.hb, arg.stale)]
    /\ UNCHANGED <<zones, meta, logs, clock, pc, click, loc, sent, arg>>

NextPill == Classify

SpecPill == InitPill /\ [][NextPill]_vars

\* C3: OFFLINE if no reading exists or age > stale_s, STALE if
\* heartbeat_s < age <= stale_s, ONLINE if age <= heartbeat_s (boundaries
\* inclusive on the better state); exactly one of the three
C3_LivenessClasses ==
    res.done =>
      /\ res.state \in {"online", "stale", "offline"}
      /\ res.state = "offline" <=> (arg.absent \/ arg.age_ms > arg.stale * 1000)
      /\ res.state = "stale" <=>
           (~arg.absent /\ arg.hb * 1000 < arg.age_ms /\ arg.age_ms <= arg.stale * 1000)
      /\ res.state = "online" <=> (~arg.absent /\ arg.age_ms <= arg.hb * 1000)

C3_Witness ==
    /\ res.done /\ ~arg.absent /\ arg.hb = heartbeat_s
    /\ arg.age_ms = heartbeat_s * 1000 /\ res.state = "online"

-----------------------------------------------------------------------------
(* Zone snapshot, thresholds and advice *)

\* line 66
pull_zone(node) == OrEmpty(node)

\* z.get(...) / m.get(...) on a value that is no mapping raises AttributeError
IsMapping(node) == node.k = "map"

\* lines 228-229, z a mapping
soil_pct_of(z) == DictGet(z.m, "soil_pct", DictGet(z.m, "soil_moisture_pct", None))
humidity_pct_of(z) == DictGet(z.m, "humidity_pct", DictGet(z.m, "moisture_pct", None))

\* `x or y` in place of `x if x is not None else y`: a reading of 0 is falsy
FirstTruthy(soil_pct, humidity_pct) ==
    IF ~IsNone(soil_pct) /\ Val(soil_pct) # 0 THEN soil_pct ELSE humidity_pct

\* line 238
moisture_for_kpi(soil_pct, humidity_pct) == IF ~IsNone(soil_pct) THEN soil_pct ELSE humidity_pct
\* line 241: which label the KPI carries
kpi_label(soil_pct) == IF ~IsNone(soil_pct) THEN "Soil moisture (%)" ELSE "Humidity / Moisture (%)"
\* line 320
moisture_now_of(soil_pct, humidity_pct) == IF ~IsNone(soil_pct) THEN soil_pct ELSE humidity_pct

default_start == 30
default_stop == 45

\* lines 101-104, for a read that returned null or a mapping of integers
get_thresholds(node) ==
    LET m == OrEmpty(node).m
    IN  <<Val(DictGet(m, "theta_start_pct", Some(default_start))),
          Val(DictGet(m, "theta_stop_pct", Some(default_stop)))>>

\* lines 321-324: warning, success, or nothing shown
AdviceInclusive(moisture_now, theta_start, theta_stop) ==
    IF ~IsNone(moisture_now) /\ Val(moisture_now) <= theta_start THEN "NEEDS_WATER"
    ELSE IF ~IsNone(moisture_now) /\ Val(moisture_now) >= theta_stop THEN "SUFFICIENT"
    ELSE "NEUTRAL"
Advice(moisture_now, theta_start, theta_stop) ==
    IF ~IsNone(moisture_now) /\ Val(moisture_now) < theta_start THEN "NEEDS_WATER"
    ELSE IF ~IsNone(moisture_now) /\ Val(moisture_now) >= theta_stop THEN "SUFFICIENT"
    ELSE "NEUTRAL"

-----------------------------------------------------------------------------
(* Snapshot extraction and advisor on their own *)

PctSamples == {0, 30, 45, 60}
ThetaSamples == {29, 30, 31, 44, 45, 46, 60}
MoistureKeys == {"soil_pct", "soil_moisture_pct", "humidity_pct", "moisture_pct"}

ZoneSamples ==
    {MapNode(m) : m \in UNION {[ks -> PctSamples] : ks \in (SUBSET MoistureKeys) \ {{}}}}
      \cup {NullNode}
ThresholdPairs == {p \in ThetaSamples \X ThetaSamples : p[1] < p[2]}
MetaOf(p) == MapNode([theta_start_pct |-> p[1], theta_stop_pct |-> p[2]])
MetaSamples == {MetaOf(p) : p \in ThresholdPairs} \cup {NullNode}

InitAdvice ==
    /\ NoStore
    /\ arg \in [zone : ZoneSamples, meta : MetaSamples]
    /\ res = Pending

Advise ==
    /\ res = Pending
    /\ LET z == pull_zone(arg.zone)
           soil_pct == soil_pct_of(z)
           humidity_pct == humidity_pct_of(z)
           th == get_thresholds(arg.meta)
       IN  res' = [done |-> TRUE,
                   kpi |-> moisture_for_kpi(soil_pct, humidity_pct),
                   label |-> kpi_label(soil_pct),
                   moisture_now |-> moisture_now_of(soil_pct, humidity_pct),
                   theta_start |-> th[1], theta_stop |-> th[2],
                   advice |-> Advice(moisture_now_of(soil_pct, humidity_pct), th[1], th[2])]
    /\ UNCHANGED <<zones, meta, logs, clock, pc, click, loc, sent, arg>>

NextAdvice == Advise

SpecAdvice == InitAdvice /\ [][NextAdvice]_vars

\* C2: for thresholds with start < stop the advice is NEUTRAL for an absent
\* moisture, NEEDS_WATER below start, SUFFICIENT at or above stop, NEUTRAL in
\* between (start itself is NEUTRAL, stop itself is SUFFICIENT)
C2_AdvisorTable ==
    (res.done /\ res.theta_start < res.theta_stop) =>
      /\ res.advice \in {"NEEDS_WATER", "SUFFICIENT", "NEUTRAL"}
      /\ res.advice = "NEEDS_WATER" <=>
           (res.moisture_now # None /\ res.moisture_now[1] < res.theta_start)
      /\ res.advice = "SUFFICIENT" <=>
           (res.moisture_now # None /\ res.moisture_now[1] >= res.theta_stop)
      /\ (res.moisture_now # None /\ res.moisture_now[1] = res.theta_start)
           => res.advice = "NEUTRAL"

C2_Witness ==
    /\ res.done /\ res.theta_start < res.theta_stop
    /\ res.moisture_now = <<res.theta_start>> /\ res.advice = "NEUTRAL"

\* the first of the keys, in order, that the snapshot holds
RECURSIVE FirstPresent(_, _)
FirstPresent(d, keys) ==
    IF keys = <<>> THEN <<>>
    ELSE IF Head(keys) \in DOMAIN d THEN <<d[Head(keys)]>>
    ELSE FirstPresent(d, Tail(keys))

SnapshotDict(node) == IF node.k = "map" THEN node.m ELSE EmptyDict

\* C4: the moisture used for the KPI and for the advice is the soil value
\* (soil_pct, else soil_moisture_pct) whenever one is there, else the humidity
\* value (humidity_pct, else moisture_pct), and absent only without any
C4_SoilFirst ==
    res.done =>
      LET want == FirstPresent(SnapshotDict(arg.zone),
                               <<"soil_pct", "soil_moisture_pct", "humidity_pct", "moisture_pct">>)
      IN  res.kpi = want /\ res.moisture_now = want

C4_Witness ==
    /\ res.done
    /\ "soil_pct" \notin DOMAIN SnapshotDict(arg.zone)
    /\ "soil_moisture_pct" \in DOMAIN SnapshotDict(arg.zone)
    /\ "humidity_pct" \in DOMAIN SnapshotDict(arg.zone)
    /\ SnapshotDict(arg.zone)["soil_moisture_pct"] = 0
    /\ res.kpi = <<0>> /\ res.moisture_now = <<0>>

-----------------------------------------------------------------------------
(* The script over the store: viewers' runs, the sensor node, the clock *)

Viewers == {"v1", "v2"}
Commands == {"OPEN", "CLOSE", "AUTO"}
Clicks == Commands \cup {"none", "Save"}
MaxClock == 1

log_limit == 300
ns_min == 5
ns_max == 80
ne_min == 10
ne_max == 90
\* what the operator types into the two number inputs
StartInputs == {ns_min, 30}
StopInputs == {ne_min, 30}

\* time.time(), whole seconds after 1700000000, and int(time.time() * 1000)
NowNum == NumAdd(T0Num, NumOf(clock))
NowMs == Times1000(NowNum)

NoPage == [msg |-> "", ns |-> 0, ne |-> 0, err |-> "", at |-> ""]

\* the mapping at a path before an update (a non-mapping value is replaced)
Fields(node) == IF node.k = "map" THEN node.m ELSE EmptyDict

\* lines 94-97, with set() in place of update()
write_command_set(cmd) ==
    /\ zones' = MapNode([command |-> cmd, command_ts |-> NowMs])
    /\ sent' = Some([cmd |-> cmd, ts |-> NowMs])
\* lines 94-97: one update() of command and command_ts
write_command(cmd) ==
    /\ zones' = MapNode(Merge(Fields(zones), [command |-> cmd, command_ts |-> NowMs]))
    /\ sent' = Some([cmd |-> cmd, ts |-> NowMs])

\* lines 108-112 with the two values exchanged
write_thresholds_swapped(start_pct, stop_pct) ==
    meta' = MapNode(Merge(Fields(meta), [theta_start_pct |-> stop_pct,
                                         theta_stop_pct |-> start_pct,
                                         updated_ts |-> NowMs]))
\* lines 108-112: one update() of the three fields
write_thresholds(start_pct, stop_pct) ==
    meta' = MapNode(Merge(Fields(meta), [theta_start_pct |-> start_pct,
                                         theta_stop_pct |-> stop_pct,
                                         updated_ts |-> NowMs]))

\* an uncaught exception ends the run: nothing below the raising line runs,
\* the rerun of line 329 included
Crash(v, e, at) ==
    /\ pc' = [pc EXCEPT ![v] = "crashed"]
    /\ loc' = [loc EXCEPT ![v] = [NoPage EXCEPT !.err = e, !.at = at]]
    /\ click' = [click EXCEPT ![v] = "none"]

\* the buttons the page of the last run shows
Clickable(v) ==
    IF pc[v] = "idle" THEN Clicks
    ELSE IF pc[v] = "crashed" /\ loc[v].at = "thr" THEN Commands \cup {"none"}
    ELSE {"none"}

\* a run starts: first load, the rerun of line 329, or a widget event
StartRun(v) ==
    /\ pc[v] \in {"new", "idle", "crashed"}
    /\ \E c \in Clickable(v) : click' = [click EXCEPT ![v] = c]
    /\ pc' = [pc EXCEPT ![v] = "zone"]
    /\ loc' = [loc EXCEPT ![v] = NoPage]
    /\ UNCHANGED <<zones, meta, logs, clock, sent, arg, res>>

\* lines 226-248: the read succeeds and z is a mapping
PullZoneOk(v) ==
    /\ pc[v] = "zone"
    /\ IsMapping(pull_zone(zones))
    /\ pc' = [pc EXCEPT ![v] = "logs"]
    /\ UNCHANGED <<zones, meta, logs, clock, click, loc, sent, arg, res>>

\* line 226: get() raises; line 228: z.get on a value that is no mapping
PullZoneFails(v) ==
    /\ pc[v] = "zone"
    /\ \/ Crash(v, "read_failed", "zone")
       \/ ~IsMapping(pull_zone(zones)) /\ Crash(v, "malformed", "zone")
    /\ UNCHANGED <<zones, meta, logs, clock, sent, arg, res>>

\* lines 256-293: any value read is charted or reported as no logs
PullLogsOk(v) ==
    /\ pc[v] = "logs"
    /\ pull_logs(logs, log_limit) # {}
    /\ pc' = [pc EXCEPT ![v] = "ctl"]
    /\ UNCHANGED <<zones, meta, logs, clock, click, loc, sent, arg, res>>

\* line 72: get() raises
PullLogsFails(v) ==
    /\ pc[v] = "logs"
    /\ Crash(v, "read_failed", "logs")
    /\ UNCHANGED <<zones, meta, logs, clock, sent, arg, res>>

\* lines 299-304
CommandButtons(v) ==
    /\ pc[v] = "ctl"
    /\ IF click[v] \in Commands
       THEN write_command(click[v])
       ELSE UNCHANGED <<zones, sent>>
    /\ pc' = [pc EXCEPT ![v] = "thr"]
    /\ click' = [click EXCEPT ![v] = IF click[v] = "Save" THEN "Save" ELSE "none"]
    /\ UNCHANGED <<meta, logs, clock, loc, arg, res>>

\* st.number_input raises when its value lies outside [min_value, max_value]
InWidgetRange(th) ==
    /\ ns_min <= th[1] /\ th[1] <= ns_max
    /\ ne_min <= th[2] /\ th[2] <= ne_max

\* lines 309-311
ThresholdInputsOk(v) ==
    /\ pc[v] = "thr"
    /\ IsMapping(OrEmpty(meta))
    /\ InWidgetRange(get_thresholds(meta))
    /\ pc' = [pc EXCEPT ![v] = "save"]
    /\ UNCHANGED <<zones, meta, logs, clock, click, loc, sent, arg, res>>

\* line 101: get() raises; line 102: m.get on a value that is no mapping;
\* lines 310-311: the stored value is outside the widget's range
ThresholdInputsFail(v) ==
    /\ pc[v] = "thr"
    /\ \/ Crash(v, "read_failed", "thr")
       \/ ~IsMapping(OrEmpty(meta)) /\ Crash(v, "malformed", "thr")
       \/ /\ IsMapping(OrEmpty(meta))
          /\ ~InWidgetRange(get_thresholds(meta))
          /\ Crash(v, "widget", "thr")
    /\ UNCHANGED <<zones, meta, logs, clock, sent, arg, res>>

\* lines 312-316 with <= in place of <
SaveThresholdsLax(v, ns, ne) ==
    /\ IF ns <= ne
       THEN write_thresholds(ns, ne)
            /\ loc' = [loc EXCEPT ![v] = [NoPage EXCEPT !.msg = "success", !.ns = ns, !.ne = ne]]
       ELSE UNCHANGED meta
            /\ loc' = [loc EXCEPT ![v] = [NoPage EXCEPT !.msg = "error", !.ns = ns, !.ne = ne]]
\* lines 312-316: the Save button was clicked with ns, ne in the inputs
SaveThresholds(v, ns, ne) ==
    /\ IF ns < ne
       THEN write_thresholds(ns, ne)
            /\ loc' = [loc EXCEPT ![v] = [NoPage EXCEPT !.msg = "success", !.ns = ns, !.ne = ne]]
       ELSE UNCHANGED meta
            /\ loc' = [loc EXCEPT ![v] = [NoPage EXCEPT !.msg = "error", !.ns = ns, !.ne = ne]]

\* lines 312-329: the rest of the run
SaveButton(v) ==
    /\ pc[v] = "save"
    /\ IF click[v] = "Save"
       THEN \E ns \in StartInputs, ne \in StopInputs : SaveThresholds(v, ns, ne)
       ELSE UNCHANGED <<meta, loc>>
    /\ pc' = [pc EXCEPT ![v] = "idle"]
    /\ click' = [click EXCEPT ![v] = "none"]
    /\ UNCHANGED <<zones, logs, clock, sent, arg, res>>

\* the sensor node reports telemetry with its own update() on /zones/<zone>
SensorWrite ==
    /\ zones' = MapNode(Merge(Fields(zones),
                  [soil_pct |-> 20, humidity_pct |-> 60, temp_c |-> 25,
                   valve_state |-> "CLOSED", last_ts |-> TsNum(NowNum)]))
    /\ UNCHANGED <<meta, logs, clock, pc, click, loc, sent, arg, res>>

Tick ==
    /\ clock < MaxClock
    /\ clock' = clock + 1
    /\ UNCHANGED <<zones, meta, logs, pc, click, loc, sent, arg, res>>

ZoneInit == {NullNode, ScalarNode(TRUE)}
MetaInit == {NullNode, ScalarNode(TRUE), MetaOf(<<20, 50>>), MetaOf(<<3, 95>>)}
LogsInit == {MapNode(<<MapNode([ts |-> TsNum(T0Num), soil_pct |-> 40]),
                       MapNode([ts |-> TsPlaceholder, soil_pct |-> 41]),
                       ScalarNode(TRUE)>>)}

Init ==
    /\ zones \in ZoneInit
    /\ meta \in MetaInit
    /\ logs \in LogsInit
    /\ clock = 0
    /\ pc = [v \in Viewers |-> "new"]
    /\ click = [v \in Viewers |-> "none"]
    /\ loc = [v \in Viewers |-> NoPage]
    /\ sent = None
    /\ arg = None
    /\ res = Pending

Next ==
    \/ \E v \in Viewers : StartRun(v)
    \/ \E v \in Viewers : PullZoneOk(v)
    \/ \E v \in Viewers : PullZoneFails(v)
    \/ \E v \in Viewers : PullLogsOk(v)
    \/ \E v \in Viewers : PullLogsFails(v)
    \/ \E v \in Viewers : CommandButtons(v)
    \/ \E v \in Viewers : ThresholdInputsOk(v)
    \/ \E v \in Viewers : ThresholdInputsFail(v)
    \/ \E v \in Viewers : SaveButton(v)
    \/ SensorWrite
    \/ Tick

Spec == Init /\ [][Next]_vars

-----------------------------------------------------------------------------
(* Claims over the store *)

\* C1: from a /meta that is empty or holds a pair with start < stop, whatever
\* Save attempts the viewers make, the pair get_thresholds returns (defaults
\* for fields not stored) has start < stop
C1_StoredPairOrdered ==
    meta.k # "scalar" => get_thresholds(meta)[1] < get_thresholds(meta)[2]

C1_Witness ==
    /\ meta.k = "map" /\ "updated_ts" \in DOMAIN meta.m
    /\ loc["v1"].msg = "error" /\ loc["v2"].msg = "success"
    /\ get_thresholds(meta) = <<loc["v2"].ns, loc["v2"].ne>>

\* C5: a Save attempt with new_start >= new_stop shows the validation error
\* and writes nothing: /meta/<zone> is the same after the attempt as before
C5_RejectedSaveWritesNothing ==
    [][\A v \in Viewers :
          (pc[v] = "save" /\ click[v] = "Save" /\ pc'[v] = "idle"
             /\ loc'[v].ns >= loc'[v].ne)
          => (loc'[v].msg = "error" /\ meta' = meta)]_vars

C5_Witness ==
    \E v \in Viewers :
        /\ pc[v] = "idle" /\ loc[v].msg = "error" /\ loc[v].ns >= loc[v].ne
        /\ meta.k = "map" /\ "updated_ts" \in DOMAIN meta.m

\* C8 as stated: a store read that fails or returns a value that is no mapping
\* is treated as no data, and no error ends the run
C8_NoErrorPropagates ==
    \A v \in Viewers : ~(pc[v] = "crashed" /\ loc[v].err \in {"read_failed", "malformed"})

TelemetryFields ==
    {"soil_pct", "soil_moisture_pct", "humidity_pct", "moisture_pct", "temp_c",
     "valve_state", "last_ts"}
CommandFields == {"command", "command_ts"}

\* the step is viewer v's write_command
IsCommandWrite(v) == pc[v] = "ctl" /\ click[v] \in Commands /\ pc'[v] = "thr"

\* C9: write_command sets command and command_ts together at /zones/<zone>
\* and leaves every other field there, /meta and /logs as they were; no step
\* of a viewer changes a telemetry field; the stored command is always
\* paired with the command_ts of the write that set it
C9_CommandWriteFrame ==
    /\ [][\A v \in Viewers :
            IsCommandWrite(v) =>
              /\ zones'.k = "map"
              /\ DOMAIN zones'.m = (DOMAIN Fields(zones)) \cup CommandFields
              /\ \A f \in (DOMAIN Fields(zones)) \ CommandFields : zones'.m[f] = Fields(zones)[f]
              /\ zones'.m["command"] = click[v]
              /\ zones'.m["command_ts"] = NowMs
              /\ meta' = meta /\ logs' = logs]_vars
    /\ [][pc' # pc =>
            \A f \in TelemetryFields :
               DictGet(Fields(zones'), f, None) = DictGet(Fields(zones), f, None)]_vars
    /\ []("command" \in DOMAIN Fields(zones) =>
            /\ "command_ts" \in DOMAIN Fields(zones)
            /\ sent = Some([cmd |-> zones.m["command"], ts |-> zones.m["command_ts"]]))

C9_Witness ==
    /\ zones.k = "map"
    /\ {"soil_pct", "last_ts", "command", "command_ts"} \subseteq DOMAIN zones.m
    /\ zones.m["command"] = "OPEN"
    /\ zones.m["command_ts"] # Times1000(zones.m["last_ts"].n)

-----------------------------------------------------------------------------
(* Poll cycles over time: one viewer on auto-refresh, the sensor node, the clock *)

MaxReportClock == 2
\* late enough for the last report to pass the stale boundary
LiveHorizon == MaxReportClock + stale_s + 2

\* what the sensor node stamps its report with: seconds, or milliseconds
LiveStamps == {TsNum(NowNum), TsNum(NowMs)}

LiveInit ==
    /\ zones \in {NullNode, MapNode([soil_pct |-> 20, last_ts |-> TsNum(T0Num)])}
    /\ clock = 0
    /\ res = Pending
    /\ meta = None /\ logs = None /\ pc = <<>> /\ click = <<>> /\ loc = <<>>
    /\ sent = None /\ arg = None

\* lines 234 and 248: the page a run shows for the last_ts it read
LivePage(last_ts) ==
    [done |-> TRUE, last_ts |-> last_ts,
     state |-> Call2(LAMBDA last_dt, now : make_status_pill(last_dt, now, heartbeat_s, stale_s),
                     ts_to_dt(last_ts), ToFloat(NowNum))]

\* lines 226-248 of one run
LivePoll ==
    /\ res' = Call1(LivePage, DictGet(pull_zone(zones).m, "last_ts", None))
    /\ UNCHANGED <<zones, meta, logs, clock, pc, click, loc, sent, arg>>

LiveReport ==
    /\ clock <= MaxReportClock
    /\ \E ts \in LiveStamps :
         zones' = MapNode(Merge(Fields(zones), [soil_pct |-> 20, last_ts |-> ts]))
    /\ UNCHANGED <<meta, logs, clock, pc, click, loc, sent, arg, res>>

LiveTick ==
    /\ clock < LiveHorizon
    /\ clock' = clock + 1
    /\ UNCHANGED <<zones, meta, logs, pc, click, loc, sent, arg, res>>

NextLive == LivePoll \/ LiveReport \/ LiveTick

\* the clock advances, and lines 327-329 rerun the script every five seconds
SpecLive == LiveInit /\ [][NextLive]_vars /\ WF_vars(LiveTick) /\ WF_vars(LivePoll)

Rank(state) == CASE state = "online" -> 0 [] state = "stale" -> 1 [] state = "offline" -> 2

LastTsStored == DictGet(Fields(zones), "last_ts", None)

====
